---- MODULE Spec2Model ----
(***************************************************************************)
(* ZUGFeRD extraction of the PDF tool.                                     *)
(*                                                                         *)
(* The module models the two implementations of extract_zugferd_data       *)
(* (pdf_tool/utils/pdf_functions.py and the older                          *)
(* pdf_tool/pdf_functions.py) as one step-by-step state machine over the   *)
(* embedded files of an opened PDF, and the version detection of the       *)
(* invoice reader widget (pdf_tool/widgets/zugferd_reader_widget.py).      *)
(*                                                                         *)
(* Strings the code inspects are modelled by what the code does with them: *)
(* file names are sequences of characters (lower(), endswith()), namespace *)
(* URIs are sequences of their ':'-separated segments (substring test,     *)
(* startswith()), XPath candidates are sequences of prefix:name steps      *)
(* evaluated against a document tree given in document order.              *)
(***************************************************************************)
EXTENDS Integers, Sequences, FiniteSets, TLC

VARIABLES
    impl,        \* which extract_zugferd_data runs: "utils" or "legacy"
    names,       \* embfile_info(i)["filename"] of every embedded file
    contents,    \* embfile_get(i) of every embedded file read so far
    pc,          \* position inside extract_zugferd_data / the widget
    doc,         \* the fitz document handle: "unbound", "none", "open", "closed"
    i,           \* loop variable of the embedded-file loop (1-based)
    read,        \* indices for which embfile_get was called, in call order
    xml_found,   \* utils: xml_found
    xml_string,  \* decoded text of the attachment being processed
    root,        \* ET.fromstring(xml_string)
    version,     \* local variable version
    ns,          \* local variable ns (prefix -> namespace URI)
    fld,         \* index of the parsed_data entry being built
    cand,        \* index of the xpath tried next inside safe_find_multiple
    data,        \* parsed_data built so far: sequence of <<key, value>>
    evals,       \* every root.find call made: <<field, candidate, status>>
    failures,    \* what went wrong with each attachment read, in order
    phases,      \* pipeline phases entered, in order
    outcome,     \* what the caller of extract_zugferd_data observes
    wVersion,    \* widget: version shown by _add_invoice_data
    wTables,     \* widget: key of NAMESPACES / XPATH_PATHS actually used
    data_list,   \* widget: the items of self.data_list, in order
    dialog,      \* ZugferdReaderWidget: what load_zugferd showed
    preview,     \* PDFPreviewWidget: pdf_path, total_pages, current_page,
                 \* zoom_factor and the enabled state of its two page buttons
    main_window, \* MainWindow: current_pdf_path and function_buttons
    viewport,    \* PDFPreviewWidget: size of scroll_area.viewport()
    message,     \* PDFPreviewWidget: title of the message box the last handler showed
    op,          \* PDFPreviewWidget/MainWindow: the last handler and how it ended
    before,      \* pdf_path, total_pages, current_page when open_file_dialog was entered
    pdf_handler, \* v0.2 PDFHandler: current_pdf, file_path, total_pages, current_page_index
    pdf_viewer,  \* v0.2 PDFViewer: what self.label shows
    nav,         \* v0.2 NavigationBar: enabled state of prev_button, next_button
    actions,     \* v0.2 ActionButtons: enabled state of the four function buttons
    vop          \* v0.2: the last handler and how it ended

\* extract_zugferd_data and the widgets that display its result
xvars == <<impl, names, contents, pc, doc, i, read, xml_found, xml_string, root,
           version, ns, fld, cand, data, evals, failures, phases, outcome,
           wVersion, wTables, data_list, dialog>>

\* the PDF preview of the main window
pvars == <<preview, main_window, viewport, message, op, before>>

\* the v0.2 viewer
hvars == <<pdf_handler, pdf_viewer, nav, actions, vop>>

vars == <<xvars, pvars, hvars>>

----------------------------------------------------------------------------
(* Bounds *)

MaxAttachments == 2

\* zoom_in is followed while zoom_factor is below MaxZoom (in units of 100 %)
MaxZoom == 2

\* the PDFs opened in the v0.2 viewer have 1..MaxPages pages
MaxPages == 5

----------------------------------------------------------------------------
(* Python values *)

None == "None"                      \* Python's None where a string may stand
NA == "Nicht verfuegbar"            \* the literal 'Nicht verfügbar'
Truthy(s) == s /= None /\ s /= ""   \* truth value of an Optional[str]

----------------------------------------------------------------------------
(* File names: str.lower() and str.endswith() *)

LowerChar(c) ==
    CASE c = "A" -> "a" [] c = "B" -> "b" [] c = "L" -> "l" [] c = "M" -> "m"
      [] c = "R" -> "r" [] c = "T" -> "t" [] c = "X" -> "x" [] OTHER -> c

lower(s) == [k \in 1..Len(s) |-> LowerChar(s[k])]

endswith(s, suffix) ==
    /\ Len(s) >= Len(suffix)
    /\ SubSeq(s, Len(s) - Len(suffix) + 1, Len(s)) = suffix

startswith(s, prefix) ==
    /\ Len(s) >= Len(prefix)
    /\ SubSeq(s, 1, Len(prefix)) = prefix

\* Python's `sub in s`
contains(s, sub) ==
    \E k \in 0..(Len(s) - Len(sub)) : SubSeq(s, k + 1, k + Len(sub)) = sub

DotXml == <<".", "x", "m", "l">>

\* File names an embedded file can carry.
NameSet ==
    { <<"a", ".", "x", "m", "l">>,      \* a.xml
      <<"B", ".", "X", "M", "L">>,      \* B.XML
      <<"r", ".", "t", "x", "t">>,      \* r.txt
      <<"x", "m", "l">>,                \* xml   (no dot)
      <<>> }                            \* empty file name

----------------------------------------------------------------------------
(* Namespace URIs, as sequences of ':'-separated segments *)

RSM100 == <<"urn", "un", "unece", "uncefact", "data", "standard", "CrossIndustryInvoice", "100">>
RAM100 == <<"urn", "un", "unece", "uncefact", "data", "standard", "ReusableAggregateBusinessInformationEntity", "100">>
UDT100 == <<"urn", "un", "unece", "uncefact", "data", "standard", "UnqualifiedDataType", "100">>
QDT100 == <<"urn", "un", "unece", "uncefact", "data", "standard", "QualifiedDataType", "100">>
RAM12 == <<"urn", "un", "unece", "uncefact", "data", "standard", "ReusableAggregateBusinessInformationEntity", "12">>
UDT15 == <<"urn", "un", "unece", "uncefact", "data", "standard", "UnqualifiedDataType", "15">>
FERD1p0 == <<"urn", "ferd", "CrossIndustryDocument", "invoice", "1p0">>
FERD1p0Comfort == FERD1p0 \o <<"comfort">>
\* namespaces of documents that are no ZUGFeRD invoice
OtherNs == <<"urn", "example", "order">>
AltNs100 == <<"urn", "example", "CrossIndustryInvoice", "100">>

\* The identifier strings the code looks for.
Gen2Id == <<"CrossIndustryInvoice", "100">>          \* "CrossIndustryInvoice:100"
Gen1Id == <<"CrossIndustryDocument", "invoice", "1p0">>

----------------------------------------------------------------------------
(* XML documents *)

\* One element of a parsed document.  path is the chain of {namespace}name
\* tags from the child of the root down to the element, text is element.text
\* (None when the element has no text), cur is the value of its currencyID
\* attribute (None when it has none).
Elem(path, text, cur) == [path |-> path, text |-> text, cur |-> cur]

\* A decoded text.  kind "xml" is a well-formed document: rootNs/rootName make
\* up root.tag, comments is what the text holds outside of element tags, elems
\* are the descendants of the root in document order.  kind "malformed" is a
\* text ET.fromstring rejects, kind "none" stands for a variable not yet set.
Text(kind, rootNs, rootName, comments, elems) ==
    [kind |-> kind, rootNs |-> rootNs, rootName |-> rootName,
     comments |-> comments, elems |-> elems]

NoText == Text("none", <<>>, "", <<>>, <<>>)
EmptyText == Text("empty", <<>>, "", <<>>, <<>>)             \* the string ""
MalformedText == Text("malformed", <<>>, "", <<>>, <<>>)     \* e.g. "<not-xml"

\* The vocabulary namespaces of the two schema generations.
Ram(v) == IF v = "2.0" THEN RAM100 ELSE RAM12
Udt(v) == IF v = "2.0" THEN UDT100 ELSE UDT15
Rsm(v) == IF v = "2.0" THEN RSM100 ELSE FERD1p0Comfort
HeaderName(v) == IF v = "2.0" THEN "ExchangedDocument" ELSE "HeaderExchangedDocument"
TradeName(v) == IF v = "2.0" THEN "SupplyChainTradeTransaction"
                ELSE "SpecifiedSupplyChainTradeTransaction"
RootName(v) == IF v = "2.0" THEN "CrossIndustryInvoice" ELSE "CrossIndustryDocument"

Absent == "absent"

\* A document written in vocabulary v under a root in namespace rootNs.
\*   stray  the text mentions "CrossIndustryInvoice:100" in a comment
\*   hdr    the header block (document ID and issue date) is present
\*   inv    a ram:InvoiceNumber element is present
\*   gt     text of ram:GrandTotalAmount (Absent: no such element, None: an
\*          element without text);
\*          the element carries currencyID="EUR"
\*   ta     a ram:TotalAmount element is present
\*   seller ram:SellerTradeParty/ram:Name is present
MkDoc(rootNs, v, stray, hdr, inv, gt, ta, seller) ==
    LET H == <<Rsm(v), HeaderName(v)>>
        T == <<Rsm(v), TradeName(v)>>
        header == IF hdr
                  THEN << Elem(<<H>>, None, None),
                          Elem(<<H, <<Ram(v), "ID">> >>, "RE-1", None),
                          Elem(<<H, <<Ram(v), "IssueDateTime">> >>, None, None),
                          Elem(<<H, <<Ram(v), "IssueDateTime">>, <<Udt(v), "DateTimeString">> >>,
                               "20240131", None) >>
                  ELSE << >>
        trade == IF inv \/ gt /= Absent \/ ta \/ seller
                 THEN << Elem(<<T>>, None, None) >> ELSE << >>
        sel == IF seller
               THEN << Elem(<<T, <<Ram(v), "SellerTradeParty">> >>, None, None),
                       Elem(<<T, <<Ram(v), "SellerTradeParty">>, <<Ram(v), "Name">> >>,
                            "ACME", None) >>
               ELSE << >>
        num == IF inv THEN << Elem(<<T, <<Ram(v), "InvoiceNumber">> >>, "INV-2", None) >>
               ELSE << >>
        grand == IF gt /= Absent
                 THEN << Elem(<<T, <<Ram(v), "GrandTotalAmount">> >>, gt, "EUR") >>
                 ELSE << >>
        total == IF ta THEN << Elem(<<T, <<Ram(v), "TotalAmount">> >>, "99.00", "USD") >>
                 ELSE << >>
    IN  Text("xml", rootNs, RootName(v),
             IF stray THEN << Gen2Id >> ELSE << >>,
             header \o trade \o sel \o num \o grand \o total)

\* Documents that differ in what decides the version: the root namespace,
\* the vocabulary of the children and a stray mention of the generation-2
\* identifier.
DocsByVersion ==
    { MkDoc(r[1], r[2], stray, TRUE, FALSE, "123.45", FALSE, TRUE) :
        r \in { <<RSM100, "2.0">>, <<FERD1p0Comfort, "1.0">>, <<FERD1p0, "1.0">>,
                <<OtherNs, "1.0">>, <<OtherNs, "2.0">>, <<AltNs100, "2.0">> },
        stray \in BOOLEAN }

\* Documents of either generation that differ in which of the elements behind
\* the invoice number they hold, and documents that differ in the elements
\* behind the total.
DocsByContent ==
    { MkDoc(Rsm(v), v, FALSE, hdr, inv, "123.45", FALSE, TRUE) :
        v \in {"1.0", "2.0"}, hdr \in BOOLEAN, inv \in BOOLEAN }
    \cup
    { MkDoc(Rsm(v), v, FALSE, TRUE, FALSE, gt, ta, TRUE) :
        v \in {"1.0", "2.0"}, gt \in {Absent, None, "123.45"}, ta \in BOOLEAN }

\* Documents without a seller name, and documents that hold a root element only.
DocsSparse ==
    { MkDoc(Rsm(v), v, FALSE, hdr, FALSE, gt, FALSE, FALSE) :
        v \in {"1.0", "2.0"}, hdr \in BOOLEAN, gt \in {Absent, "123.45"} }

\* The document d with the text of every element called name replaced by t
\* (None for an element written without text).
WithText(d, name, t) ==
    [d EXCEPT !.elems =
        [k \in 1..Len(d.elems) |->
            IF d.elems[k].path[Len(d.elems[k].path)][2] = name
            THEN [d.elems[k] EXCEPT !.text = t] ELSE d.elems[k]]]

\* Documents whose document ID element is there but holds no text
\* (<ram:ID/> and <ram:ID></ram:ID> both parse to a text of None).
DocsBlank ==
    { WithText(MkDoc(Rsm(v), v, FALSE, TRUE, inv, Absent, FALSE, FALSE), "ID", None) :
        v \in {"1.0", "2.0"}, inv \in BOOLEAN }

\* A generation-2 document with a seller that has a postal address and a
\* buyer.  postal and city are the texts of ram:PostcodeCode and ram:CityName
\* (Absent: no such element, None: an element without text).
MkAddressDoc(postal, city) ==
    LET T == <<RSM100, "SupplyChainTradeTransaction">>
        S == <<RAM100, "SellerTradeParty">>
        A == <<RAM100, "PostalTradeAddress">>
        B == <<RAM100, "BuyerTradeParty">>
        code == IF postal = Absent THEN << >>
                ELSE << Elem(<<T, S, A, <<RAM100, "PostcodeCode">> >>, postal, None) >>
        town == IF city = Absent THEN << >>
                ELSE << Elem(<<T, S, A, <<RAM100, "CityName">> >>, city, None) >>
    IN  Text("xml", RSM100, "CrossIndustryInvoice", << >>,
             << Elem(<<T>>, None, None),
                Elem(<<T, S>>, None, None),
                Elem(<<T, S, <<RAM100, "Name">> >>, "ACME", None),
                Elem(<<T, S, A>>, None, None) >>
             \o code \o town \o
             << Elem(<<T, B>>, None, None),
                Elem(<<T, B, <<RAM100, "Name">> >>, "Kunde", None) >>)

\* Documents that differ in the postcode and the city of the seller address.
DocsAddress ==
    { MkAddressDoc(pc_[1], pc_[2]) :
        pc_ \in { <<"12345", "Berlin">>, <<Absent, "Berlin">>, <<None, "Berlin">>,
                  <<"12345", None>> } }

Docs == DocsByVersion \cup DocsByContent \cup DocsSparse \cup DocsBlank \cup DocsAddress

\* What embfile_get can return: no bytes, bytes that are no UTF-8, or the
\* UTF-8 encoding of a text.
Bytes(kind, text) == [kind |-> kind, text |-> text]
Unread == Bytes("unread", NoText)
ContentSet ==
    { Bytes("empty", NoText), Bytes("undecodable", NoText),
      Bytes("text", MalformedText) } \cup { Bytes("text", d) : d \in Docs }

\* `ident in xml_string` for a well-formed text: the identifier occurs in a
\* namespace declaration (of the root or of a descendant) or in a comment.
RawContains(text, ident) ==
    \/ contains(text.rootNs, ident)
    \/ \E k \in 1..Len(text.comments) : contains(text.comments[k], ident)
    \/ \E k \in 1..Len(text.elems) :
         \E j \in 1..Len(text.elems[k].path) :
            contains(text.elems[k].path[j][1], ident)

----------------------------------------------------------------------------
(* ElementTree: Element.find(path, namespaces) *)

\* A path './/p1:n1/p2:n2/...'; a step <<"@", name>> is the token '@name'.
XP(steps) == [desc |-> TRUE, steps |-> steps]

FindResult(status, text, cur) == [status |-> status, text |-> text, cur |-> cur]

\* ElementPath raises SyntaxError for a prefix missing from the namespace map
\* and KeyError for the token '@' outside a predicate.
FindRaises(xp, nsmap) ==
    \E k \in 1..Len(xp.steps) :
        xp.steps[k][1] = "@" \/ xp.steps[k][1] \notin DOMAIN nsmap

\* The {namespace}name tags the steps of a path stand for.
Tags(xp, nsmap) ==
    [k \in 1..Len(xp.steps) |-> <<nsmap[xp.steps[k][1]], xp.steps[k][2]>>]

FindMatches(e, desc, tags) ==
    IF desc THEN endswith(e.path, tags) ELSE e.path = tags

Find(tree, xp, nsmap) ==
    IF FindRaises(xp, nsmap) THEN FindResult("raise", None, None)
    ELSE LET tags == Tags(xp, nsmap)
             hits == {k \in 1..Len(tree.elems) : FindMatches(tree.elems[k], xp.desc, tags)}
         IN  IF hits = {} THEN FindResult("none", None, None)
             ELSE LET k == CHOOSE h \in hits : \A g \in hits : h <= g
                  IN  FindResult("elem", tree.elems[k].text, tree.elems[k].cur)

----------------------------------------------------------------------------
(* extract_zugferd_data: version detection and the candidate tables *)

\* The version both implementations derive from the decoded text.
DetectVersion(text) == IF RawContains(text, Gen2Id) THEN "2.0" ELSE "1.0"

\* The namespace map assigned to ns for a version (the same in both files).
NsFor(v) ==
    IF v = "2.0"
    THEN ("ram" :> RAM100 @@ "rsm" :> RSM100 @@ "udt" :> UDT100 @@ "qdt" :> QDT100)
    ELSE ("ram" :> RAM12 @@ "udt" :> UDT15)

EmptyNs == [p \in {} |-> <<>>]         \* ns = {}

Entry(key, v1, v2) == [key |-> key, xpaths |-> ("1.0" :> v1 @@ "2.0" :> v2)]

\* parsed_data of pdf_tool/utils/pdf_functions.py, in the order of the literal.
UtilsFields ==
    << Entry("Rechnungsnummer",
             << XP(<< <<"ram", "ExchangedDocument">>, <<"ram", "ID">> >>),
                XP(<< <<"ram", "InvoiceNumber">> >>) >>,
             << XP(<< <<"rsm", "ExchangedDocument">>, <<"ram", "ID">> >>),
                XP(<< <<"ram", "InvoiceNumber">> >>),
                XP(<< <<"ram", "ID">> >>) >>),
       Entry("Datum",
             << XP(<< <<"ram", "ExchangedDocument">>, <<"ram", "IssueDateTime">>,
                      <<"udt", "DateTimeString">> >>),
                XP(<< <<"ram", "IssueDateTime">>, <<"udt", "DateTimeString">> >>) >>,
             << XP(<< <<"rsm", "ExchangedDocument">>, <<"ram", "IssueDateTime">>,
                      <<"udt", "DateTimeString">> >>),
                XP(<< <<"ram", "IssueDateTime">>, <<"udt", "DateTimeString">> >>) >>),
       Entry("Gesamtbetrag",
             << XP(<< <<"ram", "GrandTotalAmount">> >>), XP(<< <<"ram", "TotalAmount">> >>) >>,
             << XP(<< <<"ram", "GrandTotalAmount">> >>), XP(<< <<"ram", "TotalAmount">> >>) >>),
       Entry("Waehrung",
             << XP(<< <<"ram", "GrandTotalAmount">>, <<"@", "currencyID">> >>),
                XP(<< <<"ram", "TotalAmount">>, <<"@", "currencyID">> >>) >>,
             << XP(<< <<"ram", "GrandTotalAmount">>, <<"@", "currencyID">> >>),
                XP(<< <<"ram", "TotalAmount">>, <<"@", "currencyID">> >>) >>) >>

\* parsed_data of pdf_tool/pdf_functions.py, in the order of the literal.
LegacyFields ==
    << Entry("Rechnungsnummer",
             << XP(<< <<"ram", "ExchangedDocument">>, <<"ram", "ID">> >>),
                XP(<< <<"ram", "InvoiceNumber">> >>) >>,
             << XP(<< <<"rsm", "ExchangedDocument">>, <<"ram", "ID">> >>),
                XP(<< <<"ram", "InvoiceNumber">> >>),
                XP(<< <<"ram", "ID">> >>) >>),
       Entry("Datum",
             << XP(<< <<"ram", "IssueDateTime">>, <<"udt", "DateTimeString">> >>) >>,
             << XP(<< <<"ram", "IssueDateTime">>, <<"udt", "DateTimeString">> >>),
                XP(<< <<"ram", "FormattedIssueDateTime">> >>) >>),
       Entry("Gesamtbetrag",
             << XP(<< <<"ram", "GrandTotalAmount">> >>) >>,
             << XP(<< <<"ram", "GrandTotalAmount">> >>),
                XP(<< <<"ram", "DuePayableAmount">> >>) >>),
       Entry("Waehrung",
             << XP(<< <<"ram", "InvoiceCurrencyCode">> >>) >>,
             << XP(<< <<"ram", "InvoiceCurrencyCode">> >>),
                XP(<< <<"ram", "CurrencyCode">> >>) >>),
       Entry("Verkaeufer",
             << XP(<< <<"ram", "SellerTradeParty">>, <<"ram", "Name">> >>),
                XP(<< <<"ram", "Seller">> >>) >>,
             << XP(<< <<"ram", "SellerTradeParty">>, <<"ram", "Name">> >>),
                XP(<< <<"ram", "Seller">> >>) >>),
       Entry("Kaeufer",
             << XP(<< <<"ram", "BuyerTradeParty">>, <<"ram", "Name">> >>),
                XP(<< <<"ram", "Buyer">> >>) >>,
             << XP(<< <<"ram", "BuyerTradeParty">>, <<"ram", "Name">> >>),
                XP(<< <<"ram", "Buyer">> >>) >>),
       Entry("Nettobetrag",
             << XP(<< <<"ram", "LineTotalAmount">> >>) >>,
             << XP(<< <<"ram", "LineTotalAmount">> >>), XP(<< <<"ram", "NetAmount">> >>) >>),
       Entry("Steuerbetrag",
             << XP(<< <<"ram", "TaxTotalAmount">> >>) >>,
             << XP(<< <<"ram", "TaxTotalAmount">> >>), XP(<< <<"ram", "TaxAmount">> >>) >>),
       Entry("Zahlungsbedingungen",
             << XP(<< <<"ram", "PaymentTerms">>, <<"ram", "Description">> >>) >>,
             << XP(<< <<"ram", "PaymentTerms">>, <<"ram", "Description">> >>),
                XP(<< <<"ram", "PaymentTerms">> >>) >>),
       Entry("Leistungsdatum",
             << XP(<< <<"ram", "ActualDeliverySupplyChainEvent">>,
                      <<"ram", "OccurrenceDateTime">>, <<"udt", "DateTimeString">> >>) >>,
             << XP(<< <<"ram", "ActualDeliverySupplyChainEvent">>,
                      <<"ram", "OccurrenceDateTime">>, <<"udt", "DateTimeString">> >>),
                XP(<< <<"ram", "ActualDeliverySupplyChainEvent">>,
                      <<"ram", "OccurrenceDateTime">> >>) >>) >>

Fields(im) == IF im = "utils" THEN UtilsFields ELSE LegacyFields

Reverse(s) == [k \in 1..Len(s) |-> s[Len(s) + 1 - k]]

\* XpathsFor with the candidates walked from the last to the first
XpathsFor_Reversed(entry, v) ==
    Reverse(IF v \in DOMAIN entry.xpaths THEN entry.xpaths[v] ELSE entry.xpaths["1.0"])

\* XpathsFor that ignores the detected version and reads the "1.0" list
XpathsFor_IgnoresVersion(entry, v) == entry.xpaths["1.0"]

\* xpaths_by_version.get(version, xpaths_by_version["1.0"])
XpathsFor(entry, v) ==
    IF v \in DOMAIN entry.xpaths THEN entry.xpaths[v] ELSE entry.xpaths["1.0"]

----------------------------------------------------------------------------
(* The reader widget: _detect_zugferd_version and the table selection *)

\* root.tag.startswith('{urn:...') on the namespace part of the tag
_detect_zugferd_version(tree) ==
    IF startswith(tree.rootNs, RSM100) THEN "2.0"
    ELSE IF startswith(tree.rootNs, FERD1p0) THEN "1.0"
    ELSE "unbekannt"

\* NAMESPACES.get(version, NAMESPACES["1.0"]) / XPATH_PATHS.get(version, ...):
\* the key of the entry that is used
WidgetTableKey(v) == IF v \in {"2.0", "1.0"} THEN v ELSE "1.0"

----------------------------------------------------------------------------
(* The reader widget: the display list built by _add_invoice_data *)

\* A path without './/': the steps name children of the context element.
Rel(steps) == [desc |-> FALSE, steps |-> steps]

\* context.find(path, nsmap) for the element at index b of the tree (0 is the
\* root): the index of the first match in document order, 0 for None.
FindFrom(tree, b, xp, nsmap) ==
    LET base == IF b = 0 THEN << >> ELSE tree.elems[b].path
        rs == Tags(xp, nsmap)
        below(e) == Len(e.path) > Len(base) /\ startswith(e.path, base)
        rel(e) == SubSeq(e.path, Len(base) + 1, Len(e.path))
        hits == {k \in 1..Len(tree.elems) :
                    /\ below(tree.elems[k])
                    /\ IF xp.desc THEN endswith(rel(tree.elems[k]), rs)
                       ELSE rel(tree.elems[k]) = rs}
    IN  IF hits = {} THEN 0 ELSE CHOOSE h \in hits : \A g \in hits : h <= g

NAMESPACES(key) ==
    IF key = "2.0"
    THEN ("ram" :> RAM100 @@ "rsm" :> RSM100 @@ "udt" :> UDT100)
    ELSE ("ram" :> RAM12 @@ "rsm" :> FERD1p0Comfort @@ "udt" :> UDT15)

XPATH_PATHS(key) ==
    IF key = "2.0"
    THEN [ invoice_number |-> XP(<< <<"rsm", "ExchangedDocument">>, <<"ram", "ID">> >>),
           issue_date |-> XP(<< <<"rsm", "ExchangedDocument">>, <<"ram", "IssueDateTime">>,
                                <<"udt", "DateTimeString">> >>),
           invoice_type |-> XP(<< <<"rsm", "ExchangedDocument">>, <<"ram", "TypeCode">> >>),
           seller |-> XP(<< <<"ram", "SellerTradeParty">> >>),
           seller_address |-> XP(<< <<"ram", "PostalTradeAddress">> >>),
           seller_contact |-> XP(<< <<"ram", "URIUniversalCommunication">> >>),
           seller_tax |-> XP(<< <<"ram", "SpecifiedTaxRegistration">>, <<"ram", "ID">> >>),
           buyer |-> XP(<< <<"ram", "BuyerTradeParty">> >>),
           buyer_address |-> XP(<< <<"ram", "PostalTradeAddress">> >>),
           payment |-> XP(<< <<"ram", "SpecifiedTradeSettlementPaymentMeans">> >>),
           payment_account |-> XP(<< <<"ram", "PayeePartyCreditorFinancialAccount">> >>),
           monetary |-> XP(<< <<"ram", "SpecifiedTradeSettlementMonetarySummation">> >>),
           amount_net |-> Rel(<< <<"ram", "LineTotalAmount">> >>),
           amount_tax |-> Rel(<< <<"ram", "TaxTotalAmount">> >>),
           amount_total |-> Rel(<< <<"ram", "GrandTotalAmount">> >>) ]
    ELSE [ invoice_number |-> XP(<< <<"rsm", "HeaderExchangedDocument">>, <<"ram", "ID">> >>),
           issue_date |-> XP(<< <<"ram", "IssueDateTime">>, <<"udt", "DateTimeString">> >>),
           invoice_type |-> XP(<< <<"ram", "TypeCode">> >>),
           seller |-> XP(<< <<"ram", "SellerTradeParty">> >>),
           seller_address |-> XP(<< <<"ram", "PostalTradeAddress">> >>),
           seller_contact |-> XP(<< <<"ram", "EmailURIUniversalCommunication">> >>),
           seller_tax |-> XP(<< <<"ram", "SpecifiedTaxRegistration">>, <<"ram", "ID">> >>),
           buyer |-> XP(<< <<"ram", "BuyerTradeParty">> >>),
           buyer_address |-> XP(<< <<"ram", "PostalTradeAddress">> >>),
           payment |-> XP(<< <<"ram", "SpecifiedTradeSettlementPaymentMeans">> >>),
           payment_account |-> XP(<< <<"ram", "PayeePartyCreditorFinancialAccount">> >>),
           monetary |-> XP(<< <<"ram", "SpecifiedTradeSettlementHeaderMonetarySummation">> >>),
           amount_net |-> Rel(<< <<"ram", "LineTotalAmount">> >>),
           amount_tax |-> Rel(<< <<"ram", "TaxBasisTotalAmount">> >>),
           amount_total |-> Rel(<< <<"ram", "GrandTotalAmount">> >>) ]

\* One item of data_list.  A "field" item reads "label: value extra", where
\* value is an element's text (Python formats a None text as the word None);
\* a "heading" item is a caption or a notice, an "error" item the message of
\* the handler at the end of _add_invoice_data.
Item(kind, label, value, extra) ==
    [kind |-> kind, label |-> label, value |-> value, extra |-> extra]
Line(label, value, extra) == Item("field", label, value, extra)
Heading(label) == Item("heading", label, "", "")

\* The items a helper adds, and whether it raised instead of returning.
Added(lines) == [lines |-> lines, raised |-> FALSE]
Raised(lines) == [lines |-> lines, raised |-> TRUE]

\* Statements in sequence: what follows an exception is not executed.
Then(a, b) ==
    IF a.raised THEN a ELSE [lines |-> a.lines \o b.lines, raised |-> b.raised]

RECURSIVE ThenAll(_)
ThenAll(parts) ==
    IF parts = << >> THEN Added(<< >>)
    ELSE Then(parts[1], ThenAll(SubSeq(parts, 2, Len(parts))))

\* element = root.find(path, nsmap); if element is not None: addItem(...)
_extract_element(tree, b, xp, nsmap, label) ==
    LET k == FindFrom(tree, b, xp, nsmap)
    IN  IF k = 0 THEN Added(<< >>)
        ELSE Added(<< Line(label, tree.elems[k].text, "") >>)

\* address_line = "PLZ/Ort: "; address_line += postal.text raises TypeError
\* when the PostcodeCode element has no text.
_extract_address(tree, b, nsmap) ==
    LET city == FindFrom(tree, b, Rel(<< <<"ram", "CityName">> >>), nsmap)
        postal == FindFrom(tree, b, Rel(<< <<"ram", "PostcodeCode">> >>), nsmap)
    IN  IF postal = 0 /\ city = 0 THEN Added(<< >>)
        ELSE IF postal /= 0 /\ tree.elems[postal].text = None THEN Raised(<< >>)
        ELSE Added(<< Line("PLZ/Ort",
                           IF postal /= 0 THEN tree.elems[postal].text ELSE "",
                           IF city /= 0 THEN tree.elems[city].text ELSE "") >>)

\* f"{label}: {amount.text} {amount.get('currencyID', '')}"
_extract_amount(tree, b, xp, nsmap, label) ==
    LET k == FindFrom(tree, b, xp, nsmap)
    IN  IF k = 0 THEN Added(<< >>)
        ELSE Added(<< Line(label, tree.elems[k].text,
                           IF tree.elems[k].cur = None THEN "" ELSE tree.elems[k].cur) >>)

\* The address block of a party: street, postcode and city, country.
AddressLines(tree, party, xp, nsmap) ==
    LET address == FindFrom(tree, party, xp, nsmap)
    IN  IF address = 0 THEN Added(<< >>)
        ELSE ThenAll(<< _extract_element(tree, address, Rel(<< <<"ram", "LineOne">> >>),
                                         nsmap, "Strasse"),
                        _extract_address(tree, address, nsmap),
                        _extract_element(tree, address, Rel(<< <<"ram", "CountryID">> >>),
                                         nsmap, "Land") >>)

\* The items _add_invoice_data appends to data_list for a parsed document.
_add_invoice_data(tree) ==
    LET v == _detect_zugferd_version(tree)
        nsmap == NAMESPACES(WidgetTableKey(v))
        paths == XPATH_PATHS(WidgetTableKey(v))
        seller == FindFrom(tree, 0, paths.seller, nsmap)
        buyer == FindFrom(tree, 0, paths.buyer, nsmap)
        payment == FindFrom(tree, 0, paths.payment, nsmap)
        monetary == FindFrom(tree, 0, paths.monetary, nsmap)
        contact == FindFrom(tree, seller, paths.seller_contact, nsmap)
        account == FindFrom(tree, payment, paths.payment_account, nsmap)
        general ==
            << Added(<< Item("heading", "PDF-Rechnungsversion", v, ""),
                        Heading("Allgemeine Informationen") >>),
               _extract_element(tree, 0, paths.invoice_number, nsmap, "Rechnungsnummer"),
               _extract_element(tree, 0, paths.issue_date, nsmap, "Rechnungsdatum"),
               _extract_element(tree, 0, paths.invoice_type, nsmap, "Rechnungstyp") >>
        sellerPart ==
            << Added(<< Heading("Verkaeufer") >>),
               IF seller = 0 THEN Added(<< >>)
               ELSE ThenAll(<<
                      _extract_element(tree, seller, Rel(<< <<"ram", "Name">> >>), nsmap, "Name"),
                      AddressLines(tree, seller, paths.seller_address, nsmap),
                      IF contact = 0 THEN Added(<< >>)
                      ELSE _extract_element(tree, contact, Rel(<< <<"ram", "URIID">> >>),
                                            nsmap, "E-Mail"),
                      _extract_element(tree, seller, paths.seller_tax, nsmap, "USt-ID") >>) >>
        buyerPart ==
            << Added(<< Heading("Kaeufer") >>),
               IF buyer = 0 THEN Added(<< >>)
               ELSE ThenAll(<<
                      _extract_element(tree, buyer, Rel(<< <<"ram", "Name">> >>), nsmap, "Name"),
                      AddressLines(tree, buyer, paths.buyer_address, nsmap) >>) >>
        paymentPart ==
            << Added(<< Heading("Zahlungsinformationen") >>),
               IF payment = 0 THEN Added(<< >>)
               ELSE ThenAll(<<
                      _extract_element(tree, payment, Rel(<< <<"ram", "TypeCode">> >>),
                                       nsmap, "Zahlungsart"),
                      IF account = 0 THEN Added(<< >>)
                      ELSE ThenAll(<<
                             _extract_element(tree, account, Rel(<< <<"ram", "IBANID">> >>),
                                              nsmap, "IBAN"),
                             _extract_element(tree, payment,
                                 XP(<< <<"ram", "PayeeSpecifiedCreditorFinancialInstitution">>,
                                       <<"ram", "BICID">> >>), nsmap, "BIC") >>) >>) >>
        amountPart ==
            << Added(<< Heading("Betraege") >>),
               IF monetary = 0 THEN Added(<< >>)
               ELSE ThenAll(<<
                      _extract_amount(tree, monetary, paths.amount_net, nsmap, "Nettobetrag"),
                      _extract_amount(tree, monetary, paths.amount_tax, nsmap, "Steuerbetrag"),
                      _extract_amount(tree, monetary, paths.amount_total, nsmap,
                                      "Gesamtbetrag") >>) >>
        body == ThenAll(general \o sellerPart \o buyerPart \o paymentPart \o amountPart)
    IN  IF body.raised
        THEN Append(body.lines,
                    Item("error", "Fehler beim Extrahieren der Daten", "TypeError", ""))
        ELSE body.lines

----------------------------------------------------------------------------
(* What the caller of extract_zugferd_data observes *)

Pending == [kind |-> "pending", exc |-> "", msg |-> "", xml |-> NoText, data |-> << >>]

\* return xml, data; (None, None) is ReturnOutcome(NoText, << >>)
ReturnOutcome(xml, d) ==
    [kind |-> "return", exc |-> "", msg |-> "", xml |-> xml, data |-> d]

\* raise exc(f"...: {msg}")
RaiseOutcome(exc, msg) ==
    [kind |-> "raise", exc |-> exc, msg |-> msg, xml |-> NoText, data |-> << >>]

NoXmlMsg == "Keine ZUGFeRD XML-Datei gefunden"

\* The pipeline phase a position of the code belongs to.
Enter(phase) == IF phases[Len(phases)] = phase THEN phases ELSE Append(phases, phase)

----------------------------------------------------------------------------
(* PDFPreviewWidget and MainWindow: values *)

\* zoom_factor is kept as a whole number of 1/ZoomUnit: 1.0 is ZoomUnit.  The
\* pixmap widths and heights below divide ZoomUnit, so every quotient
\* fit_to_window computes is a whole number of units and nothing is rounded.
ZoomUnit == 1200

\* the 0.25 that zoom_in adds and zoom_out subtracts
ZoomStep == ZoomUnit \div 4

\* the 0.25 zoom_out compares zoom_factor with
MinZoom == ZoomUnit \div 4

\* What show_pdf_open_dialog can return besides None: two PDFs and a file
\* that fitz cannot open.
PdfFiles == {"a.pdf", "b.pdf", "bad.pdf"}

\* fitz.open(pdf_path) succeeds
Loadable(f) == f \in {"a.pdf", "b.pdf"}

\* len(pdf_document)
PageCount(f) == IF f = "a.pdf" THEN 3 ELSE 1

\* width and height of a page's pixmap at zoom 1.0: a.pdf is portrait,
\* b.pdf is landscape
PixmapSize(f) == IF f = "a.pdf" THEN <<400, 600>> ELSE <<600, 400>>

\* render_page(pdf_path, page_number, zoom) returns a pixmap; otherwise it
\* raises RuntimeError
CanRender(f, n) == Loadable(f) /\ n >= 0 /\ n < PageCount(f)

\* the viewport after main_window.resize(40 % of the screen width, 70 % of
\* its height)
DefaultViewport == <<620, 920>>

\* the viewport sizes a resize can lead to
ViewportSizes == {<<420, 620>>, <<620, 920>>, <<820, 620>>}

ButtonNames == {"split", "word", "merge", "images", "invoice", "close"}

Min(a, b) == IF a <= b THEN a ELSE b

\* a / b as a zoom factor
Ratio(a, b) == (a * ZoomUnit) \div b

PreviewInit ==
    /\ preview = [pdf_path |-> None, total_pages |-> 0, current_page |-> 0,
                  zoom_factor |-> ZoomUnit,
                  prev_button |-> FALSE, next_button |-> FALSE]
    /\ main_window = [current_pdf_path |-> None,
                      function_buttons |-> [b \in ButtonNames |-> FALSE]]
    /\ viewport = DefaultViewport
    /\ message = ""
    /\ op = ""
    /\ before = [pdf_path |-> None, total_pages |-> 0, current_page |-> 0]

----------------------------------------------------------------------------
(* The v0.2 viewer: values *)

\* No document: PDFHandler.current_pdf and file_path are None.
NoPdf == <<"none", 0>>

\* What QFileDialog.getOpenFileName can return besides '': a PDF of n pages,
\* a path that does not exist, a file that fitz cannot open.
ViewerFiles ==
    {<<"pdf", n>> : n \in 1..MaxPages} \cup {<<"missing", 0>>, <<"corrupt", 0>>}

\* self.label shows its text 'Oeffne ein PDF, ...'
Placeholder == [label |-> "text", page |-> 0]

ViewerInit ==
    /\ pdf_handler = [current_pdf |-> NoPdf, file_path |-> NoPdf,
                      total_pages |-> 0, current_page_index |-> 0]
    /\ pdf_viewer = Placeholder
    /\ nav = [prev_button |-> FALSE, next_button |-> FALSE]
    /\ actions = FALSE
    /\ vop = ""

----------------------------------------------------------------------------
(* extract_zugferd_data, step by step *)

Init ==
    /\ impl \in {"utils", "legacy"}
    /\ names \in UNION { [1..n -> NameSet] : n \in 0..MaxAttachments }
    /\ contents = [k \in 1..Len(names) |-> Unread]
    /\ pc = "Start"
    /\ doc = IF impl = "utils" THEN "none" ELSE "unbound"
    /\ i = 1
    /\ read = << >>
    /\ xml_found = FALSE
    /\ xml_string = NoText
    /\ root = NoText
    /\ version = ""
    /\ ns = EmptyNs
    /\ fld = 1
    /\ cand = 1
    /\ data = << >>
    /\ evals = << >>
    /\ failures = << >>
    /\ phases = << "Start" >>
    /\ outcome = Pending
    /\ wVersion = ""
    /\ wTables = ""
    /\ data_list = << >>
    /\ dialog = ""
    /\ PreviewInit
    /\ ViewerInit

\* The function ends with the document open: the finally block closes it and
\* the caller gets o.
Finish(o, phase) ==
    /\ outcome' = o
    /\ doc' = IF doc = "open" THEN "closed" ELSE doc
    /\ pc' = "Done"
    /\ phases' = Enter(phase)

\* An exception (or an empty value) while attachment i is processed.
\* utils: the inner handler prints and continues with the next embedded file.
\* legacy: the outer handler wraps it in a RuntimeError.
AttachmentError(cause, msg) ==
    /\ failures' = Append(failures, <<i, cause>>)
    /\ IF impl = "utils"
       THEN /\ i' = i + 1
            /\ pc' = "Loop"
            /\ UNCHANGED <<doc, outcome, phases>>
       ELSE /\ Finish(RaiseOutcome("RuntimeError", msg), "Failed")
            /\ UNCHANGED i

\* doc = fitz.open(pdf_path), and in utils the embfile_count() == 0 test.
\* When fitz.open raises, utils returns (None, None) from its outer handler;
\* the legacy finally block calls doc.close() on a name that was never bound,
\* so its RuntimeError is replaced by an UnboundLocalError.
Open ==
    /\ pc = "Start"
    /\ \E ok \in BOOLEAN :
         IF ok
         THEN IF impl = "utils" /\ Len(names) = 0
              THEN /\ outcome' = ReturnOutcome(NoText, << >>)
                   /\ doc' = "closed"
                   /\ pc' = "Done"
                   /\ phases' = Enter("Failed")
              ELSE /\ doc' = "open"
                   /\ pc' = "Loop"
                   /\ UNCHANGED <<outcome, phases>>
         ELSE /\ doc' = doc
              /\ outcome' = IF impl = "utils" THEN ReturnOutcome(NoText, << >>)
                            ELSE RaiseOutcome("UnboundLocalError", "doc")
              /\ pc' = "Done"
              /\ phases' = Enter("Failed")
    /\ UNCHANGED <<impl, names, contents, i, read, xml_found, xml_string, root,
                   version, ns, fld, cand, data, evals, failures, wVersion, wTables,
                   data_list, dialog, pvars, hvars>>

\* IsXmlName with the dot of the suffix forgotten: endswith("xml")
IsXmlName_NoDot(filename) == endswith(lower(filename), <<"x", "m", "l">>)

\* The test that makes embedded file i a candidate.
\* utils:  not (not filename or not filename.lower().endswith(".xml"))
\* legacy: filename.lower().endswith(".xml")
IsXmlName(filename) ==
    IF impl = "utils"
    THEN ~ (filename = << >> \/ ~ endswith(lower(filename), DotXml))
    ELSE endswith(lower(filename), DotXml)

\* One pass of `for i in range(doc.embfile_count())` up to the name test, or
\* the code after the loop.
Loop ==
    /\ pc = "Loop"
    /\ IF i > Len(names)
       THEN /\ Finish(IF impl = "utils" THEN ReturnOutcome(NoText, << >>)
                      ELSE RaiseOutcome("RuntimeError", NoXmlMsg), "Failed")
            /\ UNCHANGED i
       ELSE IF IsXmlName(names[i])
            THEN /\ pc' = "Get"
                 /\ phases' = Enter("AttachmentFound")
                 /\ UNCHANGED <<i, doc, outcome>>
            ELSE /\ i' = i + 1
                 /\ UNCHANGED <<pc, phases, doc, outcome>>
    /\ UNCHANGED <<impl, names, contents, read, xml_found, xml_string, root,
                   version, ns, fld, cand, data, evals, failures, wVersion, wTables,
                   data_list, dialog, pvars, hvars>>

\* xml_data = doc.embfile_get(i); utils: if not xml_data: continue
Get ==
    /\ pc = "Get"
    /\ \E c \in ContentSet :
         /\ contents' = [contents EXCEPT ![i] = c]
         /\ read' = Append(read, i)
         /\ IF impl = "utils" /\ c.kind = "empty"
            THEN AttachmentError("Empty", "")
            ELSE /\ pc' = "Decode"
                 /\ UNCHANGED <<i, doc, outcome, failures, phases>>
    /\ UNCHANGED <<impl, names, xml_found, xml_string, root, version, ns, fld,
                   cand, data, evals, wVersion, wTables,
                   data_list, dialog, pvars, hvars>>

\* bytes.decode('utf-8')
Decoded(c) == IF c.kind = "empty" THEN EmptyText ELSE c.text

\* xml_string = xml_data.decode('utf-8'); utils: if not xml_string: continue;
\* xml_found = True
Decode ==
    /\ pc = "Decode"
    /\ IF contents[i].kind = "undecodable"
       THEN /\ AttachmentError("Encoding", "UnicodeDecodeError")
            /\ UNCHANGED <<xml_string, xml_found>>
       ELSE /\ xml_string' = Decoded(contents[i])
            /\ IF impl = "utils" /\ xml_string'.kind = "empty"
               THEN /\ AttachmentError("Empty", "")
                    /\ UNCHANGED xml_found
               ELSE /\ xml_found' = (impl = "utils")
                    /\ pc' = "Parse"
                    /\ UNCHANGED <<i, doc, outcome, failures, phases>>
    /\ UNCHANGED <<impl, names, contents, read, root, version, ns, fld, cand,
                   data, evals, wVersion, wTables,
                   data_list, dialog, pvars, hvars>>

\* root = ET.fromstring(xml_string)
Parse ==
    /\ pc = "Parse"
    /\ IF xml_string.kind /= "xml"
       THEN /\ AttachmentError("MalformedXml", "ParseError")
            /\ UNCHANGED root
       ELSE /\ root' = xml_string
            /\ pc' = "Detect"
            /\ phases' = Enter("Parsed")
            /\ UNCHANGED <<i, doc, outcome, failures>>
    /\ UNCHANGED <<impl, names, contents, read, xml_found, xml_string, version,
                   ns, fld, cand, data, evals, wVersion, wTables,
                   data_list, dialog, pvars, hvars>>

\* version = "1.0"; if "CrossIndustryInvoice:100" in xml_string: ... else: ...
Detect ==
    /\ pc = "Detect"
    /\ version' = DetectVersion(xml_string)
    /\ ns' = NsFor(version')
    /\ fld' = 1
    /\ cand' = 1
    /\ data' = << >>
    /\ pc' = "Resolve"
    /\ phases' = Enter("VersionKnown")
    /\ UNCHANGED <<impl, names, contents, doc, i, read, xml_found, xml_string,
                   root, evals, failures, outcome, wVersion, wTables,
                   data_list, dialog, pvars, hvars>>

\* CandidateStep without the `element is not None` test: a candidate that
\* finds nothing raises AttributeError on element.text and nothing catches it
CandidateStep_NoneRaises(r) ==
    IF r.status = "raise" THEN (IF impl = "utils" THEN "next" ELSE "error")
    ELSE IF r.status = "none" THEN "error"
    ELSE IF Truthy(r.text) THEN "value"
    ELSE "next"

\* CandidateStep that goes on to the next candidate after a match as well
CandidateStep_NoEarlyReturn(r) ==
    IF r.status = "raise" THEN (IF impl = "utils" THEN "next" ELSE "error")
    ELSE "next"

\* CandidateStep without the try/except around root.find
CandidateStep_NoHandler(r) ==
    IF r.status = "raise" THEN "error"
    ELSE IF r.status = "elem" /\ Truthy(r.text) THEN "value"
    ELSE "next"

\* What one root.find(xpath, ns) call inside safe_find_multiple leads to:
\*   "value"  the candidate found an element with non-empty text
\*   "next"   no match (or, in utils, an exception that is caught): go on
\*   "error"  the exception leaves safe_find_multiple (legacy has no handler)
CandidateStep(r) ==
    IF r.status = "raise" THEN (IF impl = "utils" THEN "next" ELSE "error")
    ELSE IF r.status = "elem" /\ Truthy(r.text) THEN "value"
    ELSE "next"

\* FieldDone that leaves a field without a value out of the mapping
FieldDone_OmitMissing(v) ==
    /\ data' = IF v = NA THEN data ELSE Append(data, <<Fields(impl)[fld].key, v>>)
    /\ cand' = 1
    /\ IF fld = Len(Fields(impl))
       THEN /\ pc' = "Return"
            /\ phases' = Enter("FieldsResolved")
            /\ UNCHANGED fld
       ELSE /\ fld' = fld + 1
            /\ UNCHANGED <<pc, phases>>
    /\ UNCHANGED <<doc, outcome, failures, i>>

\* safe_find_multiple returns v for the entry being built.
FieldDone(v) ==
    /\ data' = Append(data, <<Fields(impl)[fld].key, v>>)
    /\ cand' = 1
    /\ IF fld = Len(Fields(impl))
       THEN /\ pc' = "Return"
            /\ phases' = Enter("FieldsResolved")
            /\ UNCHANGED fld
       ELSE /\ fld' = fld + 1
            /\ UNCHANGED <<pc, phases>>
    /\ UNCHANGED <<doc, outcome, failures, i>>

\* One pass of `for xpath in xpaths` in safe_find_multiple, with the
\* `return "Nicht verfügbar"` that follows the last pass.
Eval ==
    /\ pc = "Resolve"
    /\ LET xpaths == XpathsFor(Fields(impl)[fld], version)
           r == Find(root, xpaths[cand], ns)
           step == CandidateStep(r)
       IN  /\ evals' = Append(evals, <<fld, cand, r.status>>)
           /\ CASE step = "value" -> FieldDone(r.text)
                [] step = "error" ->
                     /\ AttachmentError("XPath", "XPathError")
                     /\ UNCHANGED <<data, fld, cand>>
                [] OTHER ->
                     IF cand = Len(xpaths)
                     THEN FieldDone(NA)
                     ELSE /\ cand' = cand + 1
                          /\ UNCHANGED <<data, fld, pc, phases, doc, outcome, failures, i>>
    /\ UNCHANGED <<impl, names, contents, read, xml_found, xml_string, root,
                   version, ns, wVersion, wTables,
                   data_list, dialog, pvars, hvars>>

\* return xml_string, parsed_data
Return ==
    /\ pc = "Return"
    /\ Finish(ReturnOutcome(xml_string, data), "Done")
    /\ UNCHANGED <<impl, names, contents, i, read, xml_found, xml_string, root,
                   version, ns, fld, cand, data, evals, failures, wVersion, wTables,
                   data_list, dialog, pvars, hvars>>

----------------------------------------------------------------------------
(* EInvoiceReaderWidget.showEvent, which calls the utils implementation *)

\* result = extract_zugferd_data(pdf_path); without data a notice is shown,
\* otherwise root = ET.fromstring(xml_data) and _add_invoice_data(root) picks
\* the version and the tables.
ShowEvent ==
    /\ pc = "Done"
    /\ impl = "utils"
    /\ IF outcome.xml.kind /= "xml" \/ outcome.data = << >>
       THEN /\ wVersion' = "keine Daten"
            /\ wTables' = ""
            /\ data_list' = << Heading("Keine gueltigen PDF-Rechnungsdaten gefunden") >>
       ELSE /\ wVersion' = _detect_zugferd_version(outcome.xml)
            /\ wTables' = WidgetTableKey(wVersion')
            /\ data_list' = _add_invoice_data(outcome.xml)
    /\ pc' = "Shown"
    /\ UNCHANGED <<impl, names, contents, doc, i, read, xml_found, xml_string,
                   root, version, ns, fld, cand, data, evals, failures, phases,
                   outcome, dialog, pvars, hvars>>

----------------------------------------------------------------------------
(* ZugferdReaderWidget.load_zugferd, which calls the older implementation *)

\* The branch of load_zugferd an outcome of extract_zugferd_data ends in:
\* display_data after a return, the warning box in `except ValueError`, the
\* critical box in `except Exception`.
LoadBranch(o) ==
    IF o.kind = "return" THEN "display"
    ELSE IF o.exc = "ValueError" THEN "warning"
    ELSE "critical"

load_zugferd ==
    /\ pc = "Done"
    /\ impl = "legacy"
    /\ dialog' = LoadBranch(outcome)
    /\ pc' = "Loaded"
    /\ UNCHANGED <<impl, names, contents, doc, i, read, xml_found, xml_string,
                   root, version, ns, fld, cand, data, evals, failures, phases,
                   outcome, wVersion, wTables, data_list, pvars, hvars>>

----------------------------------------------------------------------------

Next ==
    \/ Open
    \/ Loop
    \/ Get
    \/ Decode
    \/ Parse
    \/ Detect
    \/ Eval
    \/ Return
    \/ ShowEvent
    \/ load_zugferd

Spec == Init /\ [][Next]_vars

----------------------------------------------------------------------------
(* PDFPreviewWidget and MainWindow: handlers *)

\* No extraction is running: the state of the extraction variables while the
\* preview or the v0.2 viewer is used.
XIdle ==
    /\ impl = "utils"
    /\ names = << >>
    /\ contents = << >>
    /\ pc = "Idle"
    /\ doc = "none"
    /\ i = 1
    /\ read = << >>
    /\ xml_found = FALSE
    /\ xml_string = NoText
    /\ root = NoText
    /\ version = ""
    /\ ns = EmptyNs
    /\ fld = 1
    /\ cand = 1
    /\ data = << >>
    /\ evals = << >>
    /\ failures = << >>
    /\ phases = << "Start" >>
    /\ outcome = Pending
    /\ wVersion = ""
    /\ wTables = ""
    /\ data_list = << >>
    /\ dialog = ""

InitIdle == XIdle /\ PreviewInit /\ ViewerInit

\* update_page_display: the two page buttons follow current_page
update_page_display(w) ==
    [w EXCEPT !.prev_button = w.current_page > 0,
              !.next_button = w.current_page < w.total_pages - 1]

\* render_current_page: the title of the message box it shows, "" for none
render_current_page(w) ==
    IF w.pdf_path = None THEN ""
    ELSE IF CanRender(w.pdf_path, w.current_page) THEN ""
    ELSE "Fehler beim Rendern"

\* fit_to_window: the widget afterwards and the title of the message box
fit_to_window(w, vp) ==
    IF w.pdf_path = None THEN <<w, "">>
    ELSE IF ~CanRender(w.pdf_path, w.current_page)
    THEN <<w, "Fehler beim Anpassen">>
    ELSE LET pixmap == PixmapSize(w.pdf_path)
             width_ratio == Ratio(vp[1] - 20, pixmap[1])
             height_ratio == Ratio(vp[2] - 20, pixmap[2])
             fitted == [w EXCEPT !.zoom_factor = Min(width_ratio, height_ratio)]
         IN  <<fitted, render_current_page(fitted)>>

\* MainWindow.set_current_pdf with enable_function_buttons
set_current_pdf(m, pdf_path) ==
    [m EXCEPT !.current_pdf_path = pdf_path,
              !.function_buttons = [b \in ButtonNames |-> TRUE]]

open_file_dialog ==
    /\ \E pdf_path \in PdfFiles \cup {None} :
          /\ before' = [pdf_path |-> preview.pdf_path,
                        total_pages |-> preview.total_pages,
                        current_page |-> preview.current_page]
          /\ IF pdf_path = None
             THEN /\ op' = "open_cancelled"
                  /\ message' = ""
                  /\ UNCHANGED <<preview, main_window, viewport>>
             ELSE IF ~Loadable(pdf_path)
             THEN \* self.pdf_path is assigned, then load_pdf raises
                  /\ preview' = [preview EXCEPT !.pdf_path = pdf_path]
                  /\ message' = "Fehler beim Laden"
                  /\ op' = "open_failed"
                  /\ UNCHANGED <<main_window, viewport>>
             ELSE LET loaded == update_page_display(
                                    [preview EXCEPT !.pdf_path = pdf_path,
                                                    !.total_pages = PageCount(pdf_path),
                                                    !.current_page = 0])
                      fitted == fit_to_window([loaded EXCEPT !.zoom_factor = ZoomUnit],
                                              DefaultViewport)
                  IN  /\ preview' = fitted[1]
                      /\ message' = fitted[2]
                      /\ main_window' = set_current_pdf(main_window, pdf_path)
                      /\ viewport' = DefaultViewport
                      /\ op' = "open_loaded"
    /\ UNCHANGED <<xvars, hvars>>

show_previous_page ==
    /\ IF preview.current_page > 0
       THEN LET w == update_page_display(
                         [preview EXCEPT !.current_page = preview.current_page - 1])
            IN  /\ preview' = w
                /\ message' = render_current_page(w)
       ELSE /\ message' = ""
            /\ UNCHANGED preview
    /\ op' = "show_previous_page"
    /\ UNCHANGED <<main_window, viewport, before, xvars, hvars>>

show_next_page ==
    /\ IF preview.current_page < preview.total_pages - 1
       THEN LET w == update_page_display(
                         [preview EXCEPT !.current_page = preview.current_page + 1])
            IN  /\ preview' = w
                /\ message' = render_current_page(w)
       ELSE /\ message' = ""
            /\ UNCHANGED preview
    /\ op' = "show_next_page"
    /\ UNCHANGED <<main_window, viewport, before, xvars, hvars>>

zoom_in ==
    /\ preview.zoom_factor < MaxZoom * ZoomUnit
    /\ preview' = [preview EXCEPT !.zoom_factor = preview.zoom_factor + ZoomStep]
    /\ message' = render_current_page(preview')
    /\ op' = "zoom_in"
    /\ UNCHANGED <<main_window, viewport, before, xvars, hvars>>

zoom_out ==
    /\ IF preview.zoom_factor > MinZoom
       THEN /\ preview' = [preview EXCEPT !.zoom_factor = preview.zoom_factor - ZoomStep]
            /\ message' = render_current_page(preview')
       ELSE /\ message' = ""
            /\ UNCHANGED preview
    /\ op' = "zoom_out"
    /\ UNCHANGED <<main_window, viewport, before, xvars, hvars>>

\* a click on fit_button
fit_button ==
    /\ preview' = fit_to_window(preview, viewport)[1]
    /\ message' = fit_to_window(preview, viewport)[2]
    /\ op' = "fit_to_window"
    /\ UNCHANGED <<main_window, viewport, before, xvars, hvars>>

resizeEvent ==
    /\ \E size \in ViewportSizes :
          /\ viewport' = size
          /\ preview' = fit_to_window(preview, size)[1]
          /\ message' = fit_to_window(preview, size)[2]
    /\ op' = "resizeEvent"
    /\ UNCHANGED <<main_window, before, xvars, hvars>>

close_current_pdf_KeepsButtons ==
    /\ main_window' = [main_window EXCEPT !.current_pdf_path = None]
    /\ message' = ""
    /\ op' = "close_current_pdf"
    /\ UNCHANGED <<preview, viewport, before, xvars, hvars>>

close_current_pdf ==
    /\ main_window' = [main_window EXCEPT
                           !.current_pdf_path = None,
                           !.function_buttons = [b \in ButtonNames |-> FALSE]]
    /\ message' = ""
    /\ op' = "close_current_pdf"
    /\ UNCHANGED <<preview, viewport, before, xvars, hvars>>

NextPreview ==
    \/ open_file_dialog
    \/ show_previous_page
    \/ show_next_page
    \/ zoom_in
    \/ zoom_out
    \/ fit_button
    \/ resizeEvent
    \/ close_current_pdf

SpecPreview == InitIdle /\ [][NextPreview]_vars

----------------------------------------------------------------------------
(* The v0.2 viewer: handlers *)

\* PDFHandler.open_pdf raises: FileNotFoundError for a path that does not
\* exist, the error of fitz.open for a file that is no PDF
open_pdf_raises(file_path) ==
    IF file_path[1] = "missing" THEN "FileNotFoundError"
    ELSE IF file_path[1] = "corrupt" THEN "FileDataError"
    ELSE ""

\* PDFHandler.open_pdf when it does not raise
PDFHandler_open_pdf(h, file_path) ==
    [h EXCEPT !.current_pdf = file_path,
              !.file_path = file_path,
              !.total_pages = file_path[2]]

\* PDFViewer.render_page: what self.label shows afterwards
render_page(h) ==
    IF h.current_pdf = NoPdf THEN Placeholder
    ELSE IF h.current_page_index >= 0 /\ h.current_page_index < h.current_pdf[2]
    THEN [label |-> "page", page |-> h.current_page_index]
    ELSE [label |-> "Fehler beim Rendern", page |-> h.current_page_index]

\* NavigationBar.update_buttons
update_buttons(h) ==
    IF h.current_pdf /= NoPdf
    THEN [prev_button |-> h.current_page_index > 0,
          next_button |-> h.current_page_index < h.total_pages - 1]
    ELSE [prev_button |-> FALSE, next_button |-> FALSE]

\* ActionButtons.open_pdf
open_pdf ==
    /\ \E file_path \in ViewerFiles \cup {NoPdf} :
          IF file_path = NoPdf
          THEN /\ vop' = "open_cancelled"
               /\ UNCHANGED <<pdf_handler, pdf_viewer, nav, actions>>
          ELSE IF open_pdf_raises(file_path) /= ""
          THEN /\ vop' = open_pdf_raises(file_path)
               /\ UNCHANGED <<pdf_handler, pdf_viewer, nav, actions>>
          ELSE /\ pdf_handler' = PDFHandler_open_pdf(pdf_handler, file_path)
               /\ pdf_viewer' = render_page(pdf_handler')
               /\ nav' = update_buttons(pdf_handler')
               /\ actions' = TRUE
               /\ vop' = "open_pdf"
    /\ UNCHANGED <<xvars, pvars>>

previous_page ==
    /\ IF pdf_handler.current_pdf = NoPdf
       THEN /\ vop' = "Keine Datei geoeffnet"
            /\ UNCHANGED <<pdf_handler, pdf_viewer, nav>>
       ELSE /\ vop' = "previous_page"
            /\ IF pdf_handler.current_page_index > 0
               THEN /\ pdf_handler' = [pdf_handler EXCEPT !.current_page_index =
                                           pdf_handler.current_page_index - 1]
                    /\ pdf_viewer' = render_page(pdf_handler')
                    /\ nav' = update_buttons(pdf_handler')
               ELSE UNCHANGED <<pdf_handler, pdf_viewer, nav>>
    /\ UNCHANGED <<actions, xvars, pvars>>

next_page ==
    /\ IF pdf_handler.current_pdf = NoPdf
       THEN /\ vop' = "Keine Datei geoeffnet"
            /\ UNCHANGED <<pdf_handler, pdf_viewer, nav>>
       ELSE /\ vop' = "next_page"
            /\ IF pdf_handler.current_page_index < pdf_handler.total_pages - 1
               THEN /\ pdf_handler' = [pdf_handler EXCEPT !.current_page_index =
                                           pdf_handler.current_page_index + 1]
                    /\ pdf_viewer' = render_page(pdf_handler')
                    /\ nav' = update_buttons(pdf_handler')
               ELSE UNCHANGED <<pdf_handler, pdf_viewer, nav>>
    /\ UNCHANGED <<actions, xvars, pvars>>

NextViewer ==
    \/ open_pdf
    \/ previous_page
    \/ next_page

SpecViewer == InitIdle /\ [][NextViewer]_vars

----------------------------------------------------------------------------
(* Vocabulary of the claims *)

Range(s) == {s[k] : k \in 1..Len(s)}

\* The name ends in ".xml", compared without regard to case.
XmlNameCI(name) ==
    LET n == Len(name)
    IN  /\ n >= 4
        /\ name[n - 3] = "."
        /\ name[n - 2] \in {"x", "X"}
        /\ name[n - 1] \in {"m", "M"}
        /\ name[n] \in {"l", "L"}

XmlIndices == {k \in 1..Len(names) : XmlNameCI(names[k])}

\* The first attachment in enumeration order whose name ends in ".xml"
FirstXmlIndex == CHOOSE k \in XmlIndices : \A j \in XmlIndices : k <= j

Finished == pc \in {"Done", "Shown", "Loaded"}

\* The document was opened and the function has returned or raised.
Ran == Finished /\ doc = "closed"

\* The outcome of a PDF without any .xml attachment.
NoAttachmentOutcome ==
    IF impl = "utils" THEN ReturnOutcome(NoText, << >>)
    ELSE RaiseOutcome("RuntimeError", NoXmlMsg)

\* Fields are being, or have been, resolved from root.
Resolving == root.kind = "xml" /\ version /= ""

\* The value recorded for the entry with the given key.
ValueOf(d, key) ==
    LET ks == {k \in 1..Len(d) : d[k][1] = key}
    IN  IF ks = {} THEN None ELSE d[CHOOSE k \in ks : TRUE][2]

\* The declared candidates of entry k for the detected version.
Declared(k) == Fields(impl)[k].xpaths[version]

\* Candidate c of entry k locates an element with non-empty text.
Locates(k, c) ==
    LET r == Find(root, Declared(k)[c], ns)
    IN  r.status = "elem" /\ r.text /= None /\ r.text /= ""

Matching(k) == {c \in 1..Len(Declared(k)) : Locates(k, c)}

----------------------------------------------------------------------------
(* C1 *)

\* C1 (as stated): the attachment whose XML is parsed, resolved and returned
\* is the first one in enumeration order whose name ends in ".xml"; a later
\* .xml attachment is never the one used, whatever the first one contains.
C1_FirstXmlIsUsed ==
    (\/ pc \in {"Detect", "Resolve", "Return"}
     \/ (Finished /\ outcome.kind = "return" /\ outcome.xml.kind = "xml"))
        => i = FirstXmlIndex

----------------------------------------------------------------------------
(* C2 *)

\* Embedded file k has been passed by the loop's name test.
Examined(k) ==
    /\ doc \in {"open", "closed"}
    /\ k <= Len(names)
    /\ k < i \/ (k = i /\ pc \notin {"Start", "Loop"})

\* Embedded file k is treated as a candidate: it is about to be, or has been,
\* fetched with embfile_get.
Candidate(k) == k \in Range(read) \/ (pc = "Get" /\ k = i)

\* C2: an attachment is a candidate if and only if its name ends in ".xml"
\* compared case-insensitively; a list without such an attachment (the empty
\* list included) yields the no-attachment outcome, with no XML text and no
\* field mapping.
C2_NoXmlAttachment ==
    /\ \A k \in 1..Len(names) : Examined(k) => (Candidate(k) <=> XmlNameCI(names[k]))
    /\ (Ran /\ XmlIndices = {}) =>
          /\ outcome = NoAttachmentOutcome
          /\ outcome.xml = NoText
          /\ outcome.data = << >>
          /\ read = << >>

C2_Witness ==
    /\ Ran
    /\ Len(names) >= 2
    /\ XmlIndices = {}
    /\ \E k \in 1..Len(names) : names[k] = <<"x", "m", "l">>

----------------------------------------------------------------------------
(* C3 *)

\* What is wrong with the located attachment (the first one fetched).
LocatedFault ==
    IF read = << >> THEN "none"
    ELSE LET c == contents[read[1]]
         IN  IF c.kind = "undecodable" THEN "Encoding"
             ELSE IF c.kind = "text" /\ c.text.kind = "malformed" THEN "MalformedXml"
             ELSE "none"

\* C3 (as stated): bytes that are no UTF-8 end the extraction with an Encoding
\* failure and a text that is no well-formed XML with a MalformedXml failure;
\* each comes without a field mapping and is an outcome the caller can tell
\* from the no-attachment outcome and from the other failure.
C3_FailuresDistinguishable ==
    (Ran /\ LocatedFault \in {"Encoding", "MalformedXml"}) =>
        /\ outcome.data = << >>
        /\ outcome /= NoAttachmentOutcome
        /\ LocatedFault = "Encoding" => outcome.msg /= "ParseError"
        /\ LocatedFault = "MalformedXml" => outcome.msg /= "UnicodeDecodeError"

----------------------------------------------------------------------------
(* C4 *)

PhaseOrder ==
    { <<"Start", "AttachmentFound">>, <<"Start", "Failed">>,
      <<"AttachmentFound", "Parsed">>, <<"AttachmentFound", "Failed">>,
      <<"Parsed", "VersionKnown">>, <<"VersionKnown", "FieldsResolved">>,
      <<"FieldsResolved", "Done">> }

\* C4 (as stated): the phases are entered in the order Start, AttachmentFound,
\* Parsed, VersionKnown, FieldsResolved, Done, with Failed entered only from
\* Start or AttachmentFound; one attachment is chosen per attempt and no other
\* attachment is read after it.
C4_SinglePass ==
    /\ phases[1] = "Start"
    /\ \A k \in 1..(Len(phases) - 1) : <<phases[k], phases[k + 1]>> \in PhaseOrder
    /\ Len(read) <= 1

----------------------------------------------------------------------------
(* C5 *)

\* C5 (as stated): a root namespace containing "CrossIndustryInvoice:100" is
\* classified 2.0 and one containing "CrossIndustryDocument:invoice:1p0" is
\* classified 1.0, by extract_zugferd_data and by _detect_zugferd_version.
C5_ClassifiedByRootNamespace ==
    /\ Resolving =>
          /\ contains(root.rootNs, Gen2Id) => version = "2.0"
          /\ contains(root.rootNs, Gen1Id) => version = "1.0"
    /\ (pc = "Shown" /\ wTables /= "") =>
          /\ contains(outcome.xml.rootNs, Gen2Id) => wVersion = "2.0"
          /\ contains(outcome.xml.rootNs, Gen1Id) => wVersion = "1.0"

----------------------------------------------------------------------------
(* C6 *)

NeitherId(tree) == ~ contains(tree.rootNs, Gen2Id) /\ ~ contains(tree.rootNs, Gen1Id)

\* C6 (as stated): a document whose root namespace contains neither identifier
\* is shown as version "unbekannt" and has its fields resolved with the 1.0
\* namespace map and the 1.0 candidates, in the widget and in
\* extract_zugferd_data.
C6_UnknownUsesV1Tables ==
    /\ (Resolving /\ NeitherId(root)) =>
          /\ ns = NsFor("1.0")
          /\ \A k \in 1..Len(Fields(impl)) :
                XpathsFor(Fields(impl)[k], version) = Fields(impl)[k].xpaths["1.0"]
    /\ (pc = "Shown" /\ wTables /= "" /\ NeitherId(outcome.xml)) =>
          /\ wVersion = "unbekannt"
          /\ wTables = "1.0"

----------------------------------------------------------------------------
(* C7 *)

\* C7: the value of every resolved field is the text found by the earliest
\* declared candidate that locates an element with non-empty text (so a
\* document satisfying only B resolves to B's value and one satisfying A and
\* B to A's value).
C7_FirstMatchWins ==
    Resolving =>
        \A k \in 1..Len(data) :
            LET m == Matching(k)
                first == CHOOSE c \in m : \A d \in m : c <= d
            IN  m /= {} =>
                    data[k] = <<Fields(impl)[k].key, Find(root, Declared(k)[first], ns).text>>

\* Only the second candidate of Gesamtbetrag matched in one run, and ...
C7_Witness ==
    /\ Ran
    /\ Resolving
    /\ Matching(3) = {2}
    /\ ValueOf(outcome.data, "Gesamtbetrag") = "99.00"

\* ... both candidates of Gesamtbetrag matched in another.
C7_WitnessBoth ==
    /\ Ran
    /\ Resolving
    /\ Matching(3) = {1, 2}
    /\ ValueOf(outcome.data, "Gesamtbetrag") = "123.45"

----------------------------------------------------------------------------
(* C8 *)

\* C8: a field none of whose candidates matches resolves to 'Nicht verfügbar',
\* every field whose data is found still has its value, and an extraction
\* that reached field resolution ends with the XML text and a complete field
\* mapping.
C8_MissingFieldIsNotFatal ==
    /\ Resolving =>
          \A k \in 1..Len(data) :
              LET m == Matching(k)
              IN  /\ m = {} => data[k][2] = NA
                  /\ m /= {} => data[k][2] \notin {NA, None, ""}
    /\ (Finished /\ Resolving) =>
          /\ outcome.kind = "return"
          /\ outcome.xml = root
          /\ Len(outcome.data) = Len(Fields(impl))
          /\ \A k \in 1..Len(Fields(impl)) : outcome.data[k][1] = Fields(impl)[k].key

C8_Witness ==
    /\ Ran
    /\ Resolving
    /\ outcome.kind = "return"
    /\ ValueOf(outcome.data, "Rechnungsnummer") = NA
    /\ ValueOf(outcome.data, "Datum") = NA
    /\ ValueOf(outcome.data, "Gesamtbetrag") = "123.45"

----------------------------------------------------------------------------
(* C9 *)

\* C9: a candidate whose evaluation raises counts as no match: the next
\* candidate of the same field is the next one evaluated, a field whose last
\* candidate raised is recorded as 'Nicht verfügbar', the fields after it are
\* resolved and the extraction ends with the XML text and all fields.
C9_RaisingCandidateIsSkipped ==
    \A n \in 1..Len(evals) :
        evals[n][3] = "raise" =>
            LET k == evals[n][1]
                c == evals[n][2]
            IN  /\ Resolving
                /\ IF c < Len(Declared(k))
                   THEN IF n < Len(evals)
                        THEN evals[n + 1][1] = k /\ evals[n + 1][2] = c + 1
                        ELSE pc = "Resolve" /\ fld = k /\ cand = c + 1
                   ELSE /\ Len(data) >= k
                        /\ data[k] = <<Fields(impl)[k].key, NA>>
                        /\ n < Len(evals) => evals[n + 1][1] = k + 1 /\ evals[n + 1][2] = 1
                /\ Finished =>
                      /\ outcome.kind = "return"
                      /\ outcome.xml = root
                      /\ Len(outcome.data) = Len(Fields(impl))

C9_Witness ==
    /\ Ran
    /\ outcome.kind = "return"
    /\ \E n \in 1..(Len(evals) - 1) :
          /\ evals[n][3] = "raise"
          /\ evals[n + 1][3] = "raise"
          /\ evals[n + 1][1] = evals[n][1]
    /\ ValueOf(outcome.data, "Gesamtbetrag") = "99.00"
    /\ ValueOf(outcome.data, "Waehrung") = NA

----------------------------------------------------------------------------
(* C10 *)

\* The document is a generation-2 invoice whose GrandTotalAmount element has
\* the text 123.45 and the attribute currencyID="EUR".
Gen2WithGrandTotal(tree) ==
    /\ tree.kind = "xml"
    /\ tree.rootNs = RSM100
    /\ \E k \in 1..Len(tree.elems) :
          /\ tree.elems[k].path[Len(tree.elems[k].path)] = <<RAM100, "GrandTotalAmount">>
          /\ tree.elems[k].text = "123.45"
          /\ tree.elems[k].cur = "EUR"

\* C10 (as stated): such a document is classified 2.0, its grand total
\* resolves to "123.45" and its currency to "EUR", taken from the attribute.
C10_CurrencyFromAttribute ==
    (Ran /\ impl = "utils" /\ outcome.kind = "return" /\ Gen2WithGrandTotal(outcome.xml)) =>
        /\ version = "2.0"
        /\ ValueOf(outcome.data, "Gesamtbetrag") = "123.45"
        /\ ValueOf(outcome.data, "Waehrung") = "EUR"

----------------------------------------------------------------------------
(* C11 *)

\* The keys of the parsed_data literal of each implementation, in order.
FieldNames(im) ==
    IF im = "utils"
    THEN << "Rechnungsnummer", "Datum", "Gesamtbetrag", "Waehrung" >>
    ELSE << "Rechnungsnummer", "Datum", "Gesamtbetrag", "Waehrung", "Verkaeufer",
            "Kaeufer", "Nettobetrag", "Steuerbetrag", "Zahlungsbedingungen",
            "Leistungsdatum" >>

\* The extraction returned an XML text with its field mapping.
Succeeded == Finished /\ outcome.kind = "return" /\ outcome.xml.kind = "xml"

\* C11: every successful extraction returns a mapping with exactly one entry,
\* a non-empty value or 'Nicht verfügbar', for every key of the implementation's
\* field list; the keys and their order do not depend on the document or on
\* the detected version.
C11_TotalCoverage ==
    Succeeded =>
        /\ [k \in 1..Len(outcome.data) |-> outcome.data[k][1]] = FieldNames(impl)
        /\ \A k \in 1..Len(outcome.data) : outcome.data[k][2] \notin {None, ""}

\* A document that holds a root element only: every key is there and every
\* value is the marker.
C11_Witness ==
    /\ Succeeded
    /\ outcome.xml.elems = << >>
    /\ \A k \in 1..Len(outcome.data) : outcome.data[k][2] = NA
    /\ Len(outcome.data) = Len(FieldNames(impl))

----------------------------------------------------------------------------
(* C12 *)

\* How often the version was determined in this extraction.
Detections == Cardinality({k \in 1..Len(phases) : phases[k] = "VersionKnown"})

\* C12: the version is determined at most once and before the first field is
\* resolved; every root.find call of the extraction uses the namespace map and
\* a candidate of the table of that version; once set, version and ns are not
\* assigned again.  The widget reads its namespace map and its paths under
\* the one key derived from the version it detected.
C12_VersionFixedForAllFields ==
    /\ [](/\ Detections <= 1
          /\ (evals /= << >> \/ data /= << >>) => (Detections = 1 /\ Resolving)
          /\ Resolving =>
                /\ version \in {"1.0", "2.0"}
                /\ ns = NsFor(version)
                /\ \A n \in 1..Len(evals) :
                      /\ evals[n][2] <= Len(Declared(evals[n][1]))
                      /\ evals[n][3] =
                            Find(root, Declared(evals[n][1])[evals[n][2]], NsFor(version)).status
          /\ (pc = "Shown" /\ wTables /= "") =>
                wTables = WidgetTableKey(_detect_zugferd_version(outcome.xml)))
    /\ [][version /= "" => (version' = version /\ ns' = ns /\ root' = root)]_vars

\* All fields of a generation-2 document were resolved, the first of them by
\* its third candidate.
C12_Witness ==
    /\ Ran
    /\ version = "2.0"
    /\ Len(data) = Len(Fields(impl))
    /\ \E n \in 1..Len(evals) : evals[n][1] = 1 /\ evals[n][2] = 3

----------------------------------------------------------------------------
(* C13 *)

\* The widget has displayed a successfully extracted invoice.
Displayed == pc = "Shown" /\ outcome.kind = "return" /\ outcome.xml.kind = "xml"

\* The fields _add_invoice_data looks up directly under the root.
GeneralLabels == {"Rechnungsnummer", "Rechnungsdatum", "Rechnungstyp"}

LinesOf(label) == {k \in 1..Len(data_list) :
                     data_list[k].kind = "field" /\ data_list[k].label = label}

\* C13 (as stated): after a successfully extracted invoice is displayed, each
\* field has its line in the list, one whose element was not found with the
\* 'Nicht verfügbar' marker; no line is left out.
C13_MissingFieldIsDisplayed ==
    Displayed =>
        \A l \in GeneralLabels :
            /\ LinesOf(l) /= {}
            /\ FindFrom(outcome.xml, 0,
                        XPATH_PATHS(wTables)[CASE l = "Rechnungsnummer" -> "invoice_number"
                                               [] l = "Rechnungsdatum" -> "issue_date"
                                               [] OTHER -> "invoice_type"],
                        NAMESPACES(wTables)) = 0
                  => \E k \in LinesOf(l) : data_list[k].value = NA

----------------------------------------------------------------------------
(* C18 *)

\* C18 (as stated): a candidate that locates an element without text does not
\* win: the next candidate of the field is evaluated next, or the field is
\* recorded as 'Nicht verfügbar' when it was the last; no field value that is
\* returned, and no field line that is displayed, is an empty or None text.
C18_EmptyTextNeverWins ==
    /\ Resolving =>
          /\ \A k \in 1..Len(data) : data[k][2] \notin {None, ""}
          /\ \A n \in 1..Len(evals) :
                LET k == evals[n][1]
                    c == evals[n][2]
                IN  (evals[n][3] = "elem" /\ ~ Locates(k, c)) =>
                        IF c < Len(Declared(k))
                        THEN IF n < Len(evals)
                             THEN evals[n + 1][1] = k /\ evals[n + 1][2] = c + 1
                             ELSE pc = "Resolve" /\ fld = k /\ cand = c + 1
                        ELSE Len(data) >= k /\ data[k][2] = NA
    /\ Displayed =>
          \A k \in 1..Len(data_list) :
              data_list[k].kind = "field" => data_list[k].value \notin {None, ""}

----------------------------------------------------------------------------
(* C16 *)

\* fitz.open raised: the call ended without a document handle.
OpenFailed == Finished /\ doc \in {"none", "unbound"}

\* An embedded .xml file could not be decoded or parsed.
ProcessingFailed ==
    \E n \in 1..Len(failures) : failures[n][2] \in {"Encoding", "MalformedXml", "XPath"}

\* C16 (as stated): the utils extract_zugferd_data returns (None, None) when
\* the PDF holds no ZUGFeRD XML, and raises RuntimeError when the PDF cannot be
\* opened or an embedded file cannot be processed.
C16_RaisesRuntimeError ==
    (impl = "utils" /\ Finished) =>
        /\ (Ran /\ XmlIndices = {}) => outcome = ReturnOutcome(NoText, << >>)
        /\ (OpenFailed \/ (ProcessingFailed /\ ~ Succeeded)) =>
              (outcome.kind = "raise" /\ outcome.exc = "RuntimeError")

----------------------------------------------------------------------------
(* C17 *)

\* C17: an evaluation that finds an element with non-empty text is the last
\* one made for its field: the value recorded for the field is that text and
\* whatever is evaluated next is the first candidate of the following field,
\* so the candidates after it, matching or raising, are not evaluated.
C17_StopsAtFirstValue ==
    Resolving =>
        \A n \in 1..Len(evals) :
            LET k == evals[n][1]
                c == evals[n][2]
                r == Find(root, Declared(k)[c], ns)
            IN  (r.status = "elem" /\ Truthy(r.text)) =>
                    /\ Len(data) >= k
                    /\ data[k][2] = r.text
                    /\ \A m \in 1..Len(evals) : m > n => evals[m][1] > k
                    /\ n < Len(evals) => (evals[n + 1][1] = k + 1 /\ evals[n + 1][2] = 1)

\* Both candidates of Gesamtbetrag match and only the first was evaluated.
C17_Witness ==
    /\ Ran
    /\ Resolving
    /\ Matching(3) = {1, 2}
    /\ Cardinality({n \in 1..Len(evals) : evals[n][1] = 3}) = 1
    /\ ValueOf(outcome.data, "Gesamtbetrag") = "123.45"

----------------------------------------------------------------------------
(* C19 *)

\* C19 (as stated): for a well-formed document that was extracted and then
\* displayed, the version whose tables extract_zugferd_data used and the key
\* under which the widget read NAMESPACES and XPATH_PATHS are the same.
C19_SameGenerationTables ==
    Displayed => wTables = version

----------------------------------------------------------------------------
(* C20 *)

\* What each implementation itself hands to its caller when fitz.open raised.
OwnOpenFailure ==
    IF impl = "utils" THEN ReturnOutcome(NoText, << >>)
    ELSE RaiseOutcome("RuntimeError", "OpenError")

\* C20 (as stated): however extract_zugferd_data ends, a document that was
\* opened is closed, and the finally block does not replace the function's
\* own outcome by an exception of its own.
C20_CleanupIsSafe ==
    Finished =>
        /\ doc /= "open"
        /\ outcome.exc \notin {"UnboundLocalError", "NameError"}
        /\ OpenFailed => outcome = OwnOpenFailure

----------------------------------------------------------------------------
(* C21 *)

HeadingsShown == {data_list[k].label : k \in {j \in 1..Len(data_list) :
                                                data_list[j].kind = "heading"}}

\* The buyer of the displayed document has a name element.
HasBuyerName ==
    \E k \in 1..Len(outcome.xml.elems) :
        LET p == outcome.xml.elems[k].path
        IN  /\ Len(p) >= 2
            /\ p[Len(p) - 1][2] = "BuyerTradeParty"
            /\ p[Len(p)][2] = "Name"

\* C21 (as stated): whatever is absent or without text in an earlier section
\* of the displayed invoice, the buyer, payment and amount sections follow:
\* their headings are in the list and the buyer's name has its line.
C21_LaterSectionsAreDisplayed ==
    Displayed =>
        /\ {"Kaeufer", "Zahlungsinformationen", "Betraege"} \subseteq HeadingsShown
        /\ (wTables = "2.0" /\ HasBuyerName) =>
              \E k \in LinesOf("Name") : data_list[k].value = "Kunde"

----------------------------------------------------------------------------
(* C22 *)

\* C22 (as stated): for an opened PDF without any .xml attachment,
\* load_zugferd ends in its 'Keine ZUGFeRD-Daten' warning branch and not in
\* the 'Fehler beim Laden' critical branch.
C22_NoDataIsAWarning ==
    (pc = "Loaded" /\ doc = "closed" /\ XmlIndices = {}) => dialog = "warning"

----------------------------------------------------------------------------
(* C23 *)

\* C23 (as stated): after any sequence of open, zoom_in, zoom_out,
\* fit_to_window and resize operations, a zoom_out never leaves zoom_factor
\* under 0.25.
C23_ZoomOutKeepsMinimum ==
    op = "zoom_out" => preview.zoom_factor >= MinZoom

----------------------------------------------------------------------------
(* C24 *)

\* C24: after any sequence of successful opens, failed opens and
\* close_current_pdf, each of the six function buttons is enabled if and only
\* if current_pdf_path is set.
C24_ButtonsFollowCurrentPdf ==
    \A b \in ButtonNames :
        main_window.function_buttons[b] <=> (main_window.current_pdf_path /= None)

\* A failed open after a successful one leaves the buttons enabled, and a
\* close_current_pdf after the failed open has them disabled.
C24_Witness ==
    /\ op = "close_current_pdf"
    /\ preview.pdf_path = "bad.pdf"
    /\ before.pdf_path = "a.pdf"
    /\ main_window.current_pdf_path = None
    /\ \A b \in ButtonNames : ~main_window.function_buttons[b]

----------------------------------------------------------------------------
(* C25 *)

\* C25 (as stated): when loading the selected PDF fails in open_file_dialog,
\* pdf_path, total_pages and current_page keep the values they had before the
\* attempt, and a preview that showed MainWindow.current_pdf_path still
\* shows it.
C25_FailedOpenKeepsPreview ==
    op = "open_failed" =>
        /\ preview.pdf_path = before.pdf_path
        /\ preview.total_pages = before.total_pages
        /\ preview.current_page = before.current_page
        /\ (before.pdf_path = main_window.current_pdf_path)
               => (preview.pdf_path = main_window.current_pdf_path)

----------------------------------------------------------------------------
(* C26 *)

\* C26 (as stated): in the v0.2 viewer, after any sequence of open_pdf,
\* next_page and previous_page, whenever a PDF is open current_page_index is
\* a valid page index of it, and render_page does not fail on the index.
C26_PageIndexIsValid ==
    pdf_handler.current_pdf /= NoPdf =>
        /\ 0 <= pdf_handler.current_page_index
        /\ pdf_handler.current_page_index < pdf_handler.total_pages
        /\ pdf_viewer.label /= "Fehler beim Rendern"

====
